---- MODULE Spec2Model ----
(***************************************************************************)
(* Model of the two PubMed search scripts src/app.py and src/app2.py:      *)
(* query construction, keyword counting, model-type classification,        *)
(* detail fetching with scoring and sorting, and the two script bodies.    *)
(*                                                                         *)
(* A Python str is a sequence of one-character strings, so that counting,  *)
(* containment, lower-casing, splitting and integer parsing are computed   *)
(* character by character as the interpreter does.                         *)
(***************************************************************************)
EXTENDS Integers, Sequences, FiniteSets, TLC

VARIABLES
  call,      \* the pending call of a function under test: its name and arguments
  ret,       \* what that call returned: [done, raised, value]
  pc,        \* position of the script body (app.py / app2.py top level)
  env,       \* the outside world of a script run: widgets' values, PubMed's answers
  pubmed_ids,\* the script's pubmed_ids
  articles,  \* the script's articles
  shown,     \* what the script displayed: tables and messages, in order
  fetches    \* number of detail-fetch requests sent

vars == <<call, ret, pc, env, pubmed_ids, articles, shown, fetches>>

runVars == <<pc, env, pubmed_ids, articles, shown, fetches>>

-----------------------------------------------------------------------------
(* Bounds of the model *)

MaxTextLen == 3

MaxKwLen == 2

MaxWords == 2

MaxUserKw == 2

-----------------------------------------------------------------------------
(* Python str primitives *)

\* the letters str.lower() changes (ASCII; the accented letters used here are
\* lower-case already)
ToLower ==
  ("A" :> "a") @@ ("B" :> "b") @@ ("C" :> "c") @@ ("D" :> "d") @@ ("E" :> "e") @@ ("F" :> "f")
  @@ ("G" :> "g") @@ ("H" :> "h") @@ ("I" :> "i") @@ ("J" :> "j") @@ ("K" :> "k") @@ ("L" :> "l")
  @@ ("M" :> "m") @@ ("N" :> "n") @@ ("O" :> "o") @@ ("P" :> "p") @@ ("Q" :> "q") @@ ("R" :> "r")
  @@ ("S" :> "s") @@ ("T" :> "t") @@ ("U" :> "u") @@ ("V" :> "v") @@ ("W" :> "w") @@ ("X" :> "x")
  @@ ("Y" :> "y") @@ ("Z" :> "z")

ToUpper ==
  ("a" :> "A") @@ ("b" :> "B") @@ ("c" :> "C") @@ ("d" :> "D") @@ ("e" :> "E") @@ ("f" :> "F")
  @@ ("g" :> "G") @@ ("h" :> "H") @@ ("i" :> "I") @@ ("j" :> "J") @@ ("k" :> "K") @@ ("l" :> "L")
  @@ ("m" :> "M") @@ ("n" :> "N") @@ ("o" :> "O") @@ ("p" :> "P") @@ ("q" :> "Q") @@ ("r" :> "R")
  @@ ("s" :> "S") @@ ("t" :> "T") @@ ("u" :> "U") @@ ("v" :> "V") @@ ("w" :> "W") @@ ("x" :> "X")
  @@ ("y" :> "Y") @@ ("z" :> "Z")

LowerChar(c) == IF c \in DOMAIN ToLower THEN ToLower[c] ELSE c

UpperChar(c) == IF c \in DOMAIN ToUpper THEN ToUpper[c] ELSE c

\* str.lower()
Lower(s) == <<>> \o [i \in DOMAIN s |-> LowerChar(s[i])]

\* sub occurs in s at position i
MatchAt(s, sub, i) ==
  /\ i + Len(sub) - 1 <= Len(s)
  /\ \A j \in DOMAIN sub : s[i + j - 1] = sub[j]

\* sub in s
Contains(s, sub) == \E i \in 1..(Len(s) - Len(sub) + 1) : MatchAt(s, sub, i)

\* s.find(sub, i): the first position >= i where sub occurs, 0 when there is none
Find(s, sub, i) ==
  LET at == {k \in i..(Len(s) - Len(sub) + 1) : MatchAt(s, sub, k)}
  IN  IF at = {} THEN 0 ELSE CHOOSE k \in at : \A m \in at : k <= m

\* the scan of s.count(sub) from the match at position k on (0: no match)
RECURSIVE CountFrom(_, _, _)
CountFrom(s, sub, k) ==
  IF k = 0 THEN 0 ELSE 1 + CountFrom(s, sub, Find(s, sub, k + Len(sub)))

\* A scan that restarts one character after a match instead of after its end.
RECURSIVE CountOverlapping(_, _, _)
CountOverlapping(s, sub, k) ==
  IF k = 0 THEN 0 ELSE 1 + CountOverlapping(s, sub, Find(s, sub, k + 1))

StrCountOverlapping(s, sub) ==
  IF sub = <<>> THEN Len(s) + 1 ELSE CountOverlapping(s, sub, Find(s, sub, 1))

\* s.count(sub): occurrences found scanning left to right, resuming after each match
StrCount(s, sub) ==
  IF sub = <<>> THEN Len(s) + 1 ELSE CountFrom(s, sub, Find(s, sub, 1))

RECURSIVE Join(_, _)
\* sep.join(parts)
Join(sep, parts) ==
  IF parts = <<>> THEN <<>>
  ELSE IF Len(parts) = 1 THEN parts[1]
  ELSE parts[1] \o sep \o Join(sep, Tail(parts))

RECURSIVE SumSeq(_)
SumSeq(ns) == IF ns = <<>> THEN 0 ELSE ns[1] + SumSeq(Tail(ns))

\* all sequences over S of length lo..hi
SeqsOf(S, lo, hi) == UNION {[1..n -> S] : n \in lo..hi}

-----------------------------------------------------------------------------
(* String constants of the two scripts *)

NonSpecifie == <<"N","o","n"," ","s","p","é","c","i","f","i","é">>

pk_model_keywords ==
  << <<"p","k"," ","m","o","d","e","l">>,
     <<"p","o","p","u","l","a","t","i","o","n"," ","p","k">>,
     <<"n","o","n","l","i","n","e","a","r"," ","m","i","x","e","d"," ","e","f","f","e","c","t","s">>,
     <<"o","n","e","-","c","o","m","p","a","r","t","m","e","n","t">>,
     <<"t","w","o","-","c","o","m","p","a","r","t","m","e","n","t">>,
     <<"m","u","l","t","i","-","c","o","m","p","a","r","t","m","e","n","t">>,
     <<"c","o","m","p","a","r","t","m","e","n","t","a","l">>,
     <<"p","k">> >>

MtMono == <<"m","o","n","o","-","c","o","m","p","a","r","t","i","m","e","n","t","a","l">>

MtBi == <<"b","i","-","c","o","m","p","a","r","t","i","m","e","n","t","a","l">>

MtTlag == <<"a","v","e","c"," ","T","l","a","g">>

MtTransit == <<"m","o","d","è","l","e"," ","d","e"," ","t","r","a","n","s","i","t">>

model_types == <<MtMono, MtBi, MtTlag, MtTransit>>

ModelePK == <<"M","o","d","è","l","e"," ","P","K">>

KwPk == <<"p","k">>

SepAnd == <<" ","A","N","D"," ">>

SepOr == <<" ","O","R"," ">>

pharmacometry_keywords ==
  << <<"P","K"," ","m","o","d","e","l">>,
     <<"b","i","c","o","m","p","a","r","t","i","m","e","n","t","a","l">>,
     <<"m","o","n","o","c","o","m","p","a","r","t","i","m","e","n","t","a","l">>,
     <<"p","h","a","r","m","a","c","o","k","i","n","e","t","i","c","s">>,
     <<"p","h","a","r","m","a","c","o","d","y","n","a","m","i","c","s">>,
     <<"e","s","t","i","m","a","t","e","d"," ","p","a","r","a","m","e","t","e","r","s">>,
     <<"c","l","e","a","r","a","n","c","e">>,
     <<"a","b","s","o","r","p","t","i","o","n">>,
     <<"d","i","s","t","r","i","b","u","t","i","o","n"," ","v","o","l","u","m","e">>,
     <<"c","e","n","t","r","a","l"," ","c","o","m","p","a","r","t","m","e","n","t">>,
     <<"M","o","n","o","l","i","x">>,
     <<"N","O","N","M","E","M">>,
     <<"M","r","g","s","o","l","v","e">>,
     <<"L","i","x","o","f","t">>,
     <<"p","o","p","u","l","a","t","i","o","n"," ","m","o","d","e","l","i","n","g">>,
     <<"p","a","r","a","m","e","t","e","r"," ","v","a","r","i","a","b","i","l","i","t","y">>,
     <<"e","l","i","m","i","n","a","t","i","o","n"," ","r","a","t","e">>,
     <<"h","a","l","f","-","l","i","f","e">>,
     <<"b","i","o","a","v","a","i","l","a","b","i","l","i","t","y">>,
     <<"r","a","t","e"," ","o","f"," ","a","b","s","o","r","p","t","i","o","n">>,
     <<"c","o","m","p","a","r","t","m","e","n","t"," ","v","o","l","u","m","e">> >>

-----------------------------------------------------------------------------
(* Values every specification starts the unused variables with *)

NoCall == [fn |-> "none"]

NoRet == [done |-> FALSE, raised |-> FALSE, value |-> <<>>]

Returned(v) == [done |-> TRUE, raised |-> FALSE, value |-> v]

Raised(e) == [done |-> TRUE, raised |-> TRUE, value |-> e]

IdleRun ==
  /\ pc = "unused"
  /\ env = [kind |-> "none"]
  /\ pubmed_ids = <<>>
  /\ articles = <<>>
  /\ shown = <<>>
  /\ fetches = 0

-----------------------------------------------------------------------------
(* app2.py: query construction, PK keyword detection, classification *)

\* math.ceil(n * 33 / 100)
MinKeywords(n) == (n * 33 + 99) \div 100

\* seq[:k]
Prefix(seq, k) == SubSeq(seq, 1, IF k < Len(seq) THEN k ELSE Len(seq))

\* A builder that loses the first required term.
DropFirstRequired(user_keywords, optional_keywords) ==
  <<"(">> \o Join(SepAnd, IF user_keywords = <<>> THEN <<>> ELSE Tail(user_keywords))
    \o <<")">> \o SepAnd \o <<"(">>
    \o Join(SepOr, Prefix(optional_keywords, MinKeywords(Len(optional_keywords))))
    \o <<")">>

construct_query_with_keywords(user_keywords, optional_keywords) ==
  LET user_query == Join(SepAnd, user_keywords)
      min_keywords == MinKeywords(Len(optional_keywords))
      pharmacometry_query == Join(SepOr, Prefix(optional_keywords, min_keywords))
  IN  <<"(">> \o user_query \o <<")">> \o SepAnd \o <<"(">> \o pharmacometry_query \o <<")">>

\* lines 55-57 with the text already lower-cased
AnyKeywordIn(lower_text, keywords) ==
  \E i \in DOMAIN keywords : Contains(lower_text, Lower(keywords[i]))

contains_pk_model(text) == AnyKeywordIn(Lower(text), pk_model_keywords)

\* lines 68-72
KeywordCounts(lower_text, keywords) ==
  SumSeq([i \in DOMAIN keywords |-> StrCount(lower_text, Lower(keywords[i]))])

model_keyword_score(text) == KeywordCounts(Lower(text), pk_model_keywords)

\* f"{title} {summary}"
TitleSummary(title, summary) == title \o <<" ">> \o summary

\* lines 83-89
FirstModelType(combined_text) ==
  LET hits == {i \in DOMAIN model_types : Contains(combined_text, model_types[i])}
  IN  IF hits # {} THEN model_types[CHOOSE i \in hits : \A j \in hits : i <= j]
      ELSE IF Contains(combined_text, KwPk) THEN ModelePK
      ELSE NonSpecifie

determine_model_type(title, summary) == FirstModelType(Lower(TitleSummary(title, summary)))

-----------------------------------------------------------------------------
(* app.py: population detection and relevance score *)

ReferenceYear == 2025

Digits == <<"0","1","2","3","4","5","6","7","8","9">>

IsDigit(c) == \E i \in DOMAIN Digits : Digits[i] = c

DigitVal(c) == (CHOOSE i \in DOMAIN Digits : Digits[i] = c) - 1

RECURSIVE DigitsValue(_, _)
\* value of a digit string with its underscores skipped, acc the value so far
DigitsValue(ds, acc) ==
  IF ds = <<>> THEN acc
  ELSE IF ds[1] = "_" THEN DigitsValue(Tail(ds), acc)
  ELSE DigitsValue(Tail(ds), acc * 10 + DigitVal(ds[1]))

\* int(tok) for a token without whitespace: an optional sign, then digits
\* that single underscores may separate; anything else is a ValueError
ParseInt(tok) ==
  LET signed == tok # <<>> /\ tok[1] \in {"+", "-"}
      body   == IF signed THEN Tail(tok) ELSE tok
      wellFormed ==
        /\ body # <<>>
        /\ IsDigit(body[1])
        /\ IsDigit(body[Len(body)])
        /\ \A i \in DOMAIN body : IsDigit(body[i]) \/ body[i] = "_"
        /\ \A i \in 1..(Len(body) - 1) : ~(body[i] = "_" /\ body[i + 1] = "_")
  IN  IF ~wellFormed THEN [ok |-> FALSE, value |-> 0]
      ELSE [ok |-> TRUE,
            value |-> IF signed /\ tok[1] = "-" THEN 0 - DigitsValue(body, 0)
                      ELSE DigitsValue(body, 0)]

\* date.split(" ")[0]
FirstField(date) ==
  LET spaces == {i \in DOMAIN date : date[i] = " "}
  IN  IF spaces = {} THEN date
      ELSE SubSeq(date, 1, (CHOOSE i \in spaces : \A j \in spaces : i <= j) - 1)

RECURSIVE SplitWs(_, _)
\* s.split(): the maximal runs of non-blank characters; cur is the run being read
SplitWs(s, cur) ==
  IF s = <<>> THEN (IF cur = <<>> THEN <<>> ELSE <<cur>>)
  ELSE IF s[1] = " "
       THEN (IF cur = <<>> THEN <<>> ELSE <<cur>>) \o SplitWs(Tail(s), <<>>)
       ELSE SplitWs(Tail(s), Append(cur, s[1]))

populations ==
  << <<"m","i","c","e">>, <<"r","a","t","s">>, <<"h","u","m","a","n","s">>,
     <<"c","h","i","l","d","r","e","n">>, <<"a","d","u","l","t","s">> >>

\* str.capitalize()
Capitalize(s) ==
  <<>> \o [i \in DOMAIN s |-> IF i = 1 THEN UpperChar(s[i]) ELSE LowerChar(s[i])]

extract_population(title) ==
  LET tokens == SplitWs(Lower(title), <<>>)
      hits == {i \in DOMAIN populations : \E k \in DOMAIN tokens : tokens[k] = populations[i]}
  IN  IF hits # {} THEN Capitalize(populations[CHOOSE i \in hits : \A j \in hits : i <= j])
      ELSE NonSpecifie

\* A score that counts the keywords in the title alone.
TitleOnlyScore(article, query_keywords) ==
  SumSeq([i \in DOMAIN query_keywords |->
            StrCount(Lower(article.Titre), Lower(query_keywords[i]))])

\* line 71: the keyword part of the score
keyword_score(article, query_keywords) ==
  LET title == Lower(article.Titre)
      summary == Lower(article.Resume)
  IN  SumSeq([i \in DOMAIN query_keywords |->
                StrCount(title, Lower(query_keywords[i]))
                + StrCount(summary, Lower(query_keywords[i]))])

\* lines 74-77: [raised, value]; int() raises ValueError on a first field that
\* is no integer literal
date_score(date) ==
  IF ~Contains(date, <<" ">>) THEN [raised |-> FALSE, value |-> 0]
  ELSE LET year == ParseInt(FirstField(date))
       IN  IF ~year.ok THEN [raised |-> TRUE, value |-> 0]
           ELSE [raised |-> FALSE,
                 value |-> IF ReferenceYear - year.value > 0
                           THEN ReferenceYear - year.value ELSE 0]

calculate_relevance_score(article, query_keywords) ==
  LET ds == date_score(article.DatePublication)
  IN  IF ds.raised THEN Raised("ValueError")
      ELSE Returned(keyword_score(article, query_keywords) - ds.value)

-----------------------------------------------------------------------------
(* Calls of the pure functions, one specification per function family *)

Pending(fn) == call.fn = fn /\ ~ret.done

Finish(r) == ret' = r /\ UNCHANGED <<call, runVars>>

\* start positions of sub in s, overlapping ones included
Starts(s, sub) ==
  {i \in 1..(Len(s) - Len(sub) + 1) : SubSeq(s, i, i + Len(sub) - 1) = sub}

\* the largest number of pairwise disjoint occurrences of sub in s
MaxDisjoint(s, sub) ==
  LET fits(S) == \A i \in S : \A j \in S : i < j => j - i >= Len(sub)
      sizes == {Cardinality(S) : S \in {T \in SUBSET Starts(s, sub) : fits(T)}}
  IN  CHOOSE n \in sizes : \A m \in sizes : m <= n

(* ---- keyword counting ---- *)

CountAlphabet == {"a", "A", "b"}

CountTexts == SeqsOf(CountAlphabet, 0, MaxTextLen)

CountKeywords == SeqsOf(CountAlphabet, 1, MaxKwLen)

PkWords ==
  { <<"P","K">>, <<"p","k">>, <<"m","o","d","e","l">>,
    <<"P","o","p","u","l","a","t","i","o","n">>,
    <<"c","o","m","p","a","r","t","m","e","n","t","a","l">> }

PkTexts == {Join(<<" ">>, ws) : ws \in SeqsOf(PkWords, 0, MaxWords)}

YearOnly == <<"2","0","1","0">>

CountArticle(t) == [Titre |-> t, Resume |-> t, DatePublication |-> YearOnly]

InitCount ==
  /\ call \in
       {[fn |-> "count", text |-> t, keyword |-> k] : t \in CountTexts, k \in CountKeywords}
       \cup {[fn |-> "calculate_relevance_score", article |-> CountArticle(t),
              query_keywords |-> ks] :
               t \in CountTexts,
               ks \in {<<k>> : k \in CountKeywords} \cup {<<k, <<"b">> >> : k \in CountKeywords}}
       \cup {[fn |-> "model_keyword_score", text |-> t] : t \in PkTexts}
  /\ ret = NoRet
  /\ IdleRun

\* text.lower().count(keyword.lower())
CallCount ==
  /\ Pending("count")
  /\ Finish(Returned(StrCount(Lower(call.text), Lower(call.keyword))))

CallRelevanceScore ==
  /\ Pending("calculate_relevance_score")
  /\ Finish(calculate_relevance_score(call.article, call.query_keywords))

CallModelKeywordScore ==
  /\ Pending("model_keyword_score")
  /\ Finish(Returned(model_keyword_score(call.text)))

NextCount == CallCount \/ CallRelevanceScore \/ CallModelKeywordScore

SpecCount == InitCount /\ [][NextCount]_vars

(* ---- model type ---- *)

ClsFragments ==
  { MtMono, MtTlag, MtTransit,
    <<"B","i","-","C","o","m","p","a","r","t","i","m","e","n","t","a","l">>,
    <<"A","V","E","C"," ","T","L","A","G">>,
    <<"P","K">>,
    <<"r","e","v","i","e","w">> }

ClsTitles == {Join(<<" ">>, ws) : ws \in SeqsOf(ClsFragments, 0, MaxWords)}

ClsSummaries == {<<>>, KwPk, MtTlag}

InitClassify ==
  /\ call \in {[fn |-> "determine_model_type", title |-> t, summary |-> s] :
                 t \in ClsTitles, s \in ClsSummaries}
              \cup {[fn |-> "determine_model_type", title |-> t, summary |-> t] :
                      t \in ClsTitles}
  /\ ret = NoRet
  /\ IdleRun

CallDetermineModelType ==
  /\ Pending("determine_model_type")
  /\ Finish(Returned(determine_model_type(call.title, call.summary)))

NextClassify == CallDetermineModelType

SpecClassify == InitClassify /\ [][NextClassify]_vars

(* ---- query construction ---- *)

TermClearance == <<"c","l","e","a","r","a","n","c","e">>

TermICU == <<"I","C","U">>

UserTerms == {TermClearance, TermICU, <<"P","K">>, <<"m","o","d","e","l">>}

InitQuery ==
  /\ call \in {[fn |-> "construct_query_with_keywords", user_keywords |-> uk,
                pharmacometry_keywords |-> Prefix(pharmacometry_keywords, k)] :
                 uk \in SeqsOf(UserTerms, 0, MaxUserKw),
                 k \in 0..Len(pharmacometry_keywords)}
  /\ ret = NoRet
  /\ IdleRun

CallConstructQuery ==
  /\ Pending("construct_query_with_keywords")
  /\ Finish(Returned(construct_query_with_keywords(call.user_keywords,
                                                   call.pharmacometry_keywords)))

NextQuery == CallConstructQuery

SpecQuery == InitQuery /\ [][NextQuery]_vars

-----------------------------------------------------------------------------
(* fetch_article_details, both scripts *)

MaxResp == 3

\* what requests.get(...) and response.json() give a caller: kind is "ok" (a
\* JSON object with the expected member), "no_member" (a JSON object without
\* it), "not_json", "http_error" (a 4xx/5xx status with a JSON object without
\* the member) or "connection_error"; body is the member's value, a mapping
\* kept as the sequence of its <<key, value>> items in document order
Reply(kind, body) == [kind |-> kind, body |-> body]

FailureKinds == {"no_member", "not_json", "http_error", "connection_error"}

\* [done, raised, value, diag]: diag the st.error messages written meanwhile
Return(v, diag) == [done |-> TRUE, raised |-> FALSE, value |-> v, diag |-> diag]

Raise(e) == [done |-> TRUE, raised |-> TRUE, value |-> e, diag |-> <<>>]

\* details.get(field, default)
Get(details, field, default) == IF field \in DOMAIN details THEN details[field] ELSE default

\* f"https://pubmed.ncbi.nlm.nih.gov/{id}/"
Lien(id) == <<"https://pubmed.ncbi.nlm.nih.gov/", id, "/">>

RECURSIVE InsertDesc(_, _)
\* x placed behind every element whose score is at least its own
InsertDesc(sorted, x) ==
  IF sorted = <<>> THEN <<x>>
  ELSE IF sorted[1].ScorePertinence >= x.ScorePertinence
       THEN <<sorted[1]>> \o InsertDesc(Tail(sorted), x)
       ELSE <<x>> \o sorted

RECURSIVE InsertDescFront(_, _)
\* x placed in front of the elements whose score equals its own
InsertDescFront(sorted, x) ==
  IF sorted = <<>> THEN <<x>>
  ELSE IF sorted[1].ScorePertinence > x.ScorePertinence
       THEN <<sorted[1]>> \o InsertDescFront(Tail(sorted), x)
       ELSE <<x>> \o sorted

RECURSIVE ReversedTies(_, _)
\* sorted(...) ascending and then reversed: equal scores end up in reverse order
ReversedTies(list, acc) ==
  IF list = <<>> THEN acc ELSE ReversedTies(Tail(list), InsertDescFront(acc, list[1]))

RECURSIVE SortedByScoreDesc(_, _)
\* sorted(list, key=score, reverse=True): a stable sort, reverse=True keeps the
\* original order of elements with equal keys; acc is the sorted part so far
SortedByScoreDesc(list, acc) ==
  IF list = <<>> THEN acc ELSE SortedByScoreDesc(Tail(list), InsertDesc(acc, list[1]))

\* app.py lines 36-43
ArticleApp(id, details) ==
  [Titre |-> Get(details, "title", NonSpecifie),
   DatePublication |-> Get(details, "pubdate", NonSpecifie),
   Lien |-> Lien(id),
   Resume |-> Get(details, "title", NonSpecifie),
   Population |-> extract_population(Get(details, "title", <<>>)),
   Journal |-> Get(details, "source", NonSpecifie)]

\* line 45: article["Score Pertinence"] = score
WithScore(article, score) ==
  [f \in DOMAIN article \cup {"ScorePertinence"} |->
     IF f = "ScorePertinence" THEN score ELSE article[f]]

\* lines 36-45 for one item: the article with its score, or the exception
ScoredArticle(article, query_keywords) ==
  LET score == calculate_relevance_score(article, query_keywords)
  IN  IF score.raised THEN Raise(score.value)
      ELSE Return(WithScore(article, score.value), <<>>)

RECURSIVE FetchLoopApp(_, _, _)
\* app.py lines 32-47: the loop over results["result"].items(), then the sort;
\* an exception of calculate_relevance_score leaves the function
FetchLoopApp(items, query_keywords, acc) ==
  IF items = <<>> THEN Return(SortedByScoreDesc(acc, <<>>), <<>>)
  ELSE IF items[1][1] = "uids" THEN FetchLoopApp(Tail(items), query_keywords, acc)
  ELSE LET scored == ScoredArticle(ArticleApp(items[1][1], items[1][2]), query_keywords)
       IN  IF scored.raised THEN scored
           ELSE FetchLoopApp(Tail(items), query_keywords, Append(acc, scored.value))

\* app.py fetch_article_details: nothing is caught, so a failed request, a body
\* that is no JSON and a missing "result" member all raise
FetchApp(reply, query_keywords) ==
  CASE reply.kind = "connection_error" -> Raise("ConnectionError")
    [] reply.kind = "not_json" -> Raise("JSONDecodeError")
    [] reply.kind \in {"no_member", "http_error"} -> Raise("KeyError")
    [] OTHER -> FetchLoopApp(reply.body, query_keywords, <<>>)

\* app2.py lines 114-123, title and summary read at lines 110-112
ArticleOf(id, details, title, summary) ==
  [Journal |-> Get(details, "source", NonSpecifie),
   DatePublication |-> Get(details, "pubdate", NonSpecifie),
   Titre |-> title,
   Lien |-> Lien(id),
   Resume |-> summary,
   TypeModele |-> determine_model_type(title, summary),
   ContientModelePK |-> IF contains_pk_model(TitleSummary(title, summary))
                        THEN "Oui" ELSE "Non",
   ScoreModelePK |-> model_keyword_score(TitleSummary(title, summary))]

\* app2.py lines 110-123: the summary is the title
ArticleApp2(id, details) ==
  ArticleOf(id, details, Get(details, "title", NonSpecifie), Get(details, "title", NonSpecifie))

RECURSIVE FetchLoopApp2(_, _)
\* app2.py lines 106-125
FetchLoopApp2(items, acc) ==
  IF items = <<>> THEN acc
  ELSE IF items[1][1] = "uids" THEN FetchLoopApp2(Tail(items), acc)
  ELSE FetchLoopApp2(Tail(items), Append(acc, ArticleApp2(items[1][1], items[1][2])))

ErrNotJsonFetch == "La réponse de l'API PubMed n'est pas au format JSON. Impossible de récupérer les articles."

ErrRequest == "Erreur lors de la requête à l'API PubMed"

\* app2.py fetch_article_details: raise_for_status() turns an error status
\* into HTTPError; JSONDecodeError and RequestException are caught
FetchApp2(reply) ==
  CASE reply.kind \in {"connection_error", "http_error"} -> Return(<<>>, <<ErrRequest>>)
    [] reply.kind = "not_json" -> Return(<<>>, <<ErrNotJsonFetch>>)
    [] reply.kind = "no_member" -> Return(<<>>, <<>>)
    [] OTHER -> Return(FetchLoopApp2(reply.body, <<>>), <<>>)

(* ---- calls of fetch_article_details and calculate_relevance_score ---- *)

TitleR1 == <<"A","n","t","i","b","i","o","t","i","c"," ","P","K"," ","i","n"," ","I","C","U"," ","p","a","t","i","e","n","t","s",","," ","b","i","-","c","o","m","p","a","r","t","i","m","e","n","t","a","l"," ","m","o","d","e","l">>

TitleR2 == <<"G","e","n","e","r","a","l"," ","a","n","t","i","b","i","o","t","i","c"," ","r","e","v","i","e","w">>

Date2023 == <<"2","0","2","3"," ","A","p","r"," ","0","1">>

Date2010 == <<"2","0","1","0">>

DateSpring == <<"S","p","r","i","n","g"," ","2","0","2","0">>

DateLeadingSpace == <<" ","2","0","2","0">>

Date2030 == <<"2","0","3","0"," ","J","a","n">>

Lancet == <<"L","a","n","c","e","t">>

ScenarioKeywords == << <<"a","n","t","i","b","i","o","t","i","c">>, <<"I","C","U">> >>

Ids == {"101", "102", "103"}

TitlePkModel == <<"P","K"," ","m","o","d","e","l">>

TitleReview == <<"r","e","v","i","e","w">>

\* esummary records: title and source present, pubdate present or absent
DetailRecords(titles) ==
  {[title |-> t, pubdate |-> d, source |-> Lancet] :
     t \in titles, d \in {Date2023, Date2010, DateSpring}}
  \cup {[title |-> t, source |-> Lancet] : t \in titles}

\* the value of the "uids" member: the JSON array of the ids (kept under the
\* field "array"), or an object that looks like an article
UidsValues == {[array |-> <<"101", "102">>], [title |-> TitleR1, pubdate |-> Date2023]}

\* seq with x put in at position p
InsertAt(seq, p, x) == SubSeq(seq, 1, p - 1) \o <<x>> \o SubSeq(seq, p, Len(seq))

\* n distinct ids, in any order
IdSeqs(n) == {k \in [1..n -> Ids] : \A i \in 1..n : \A j \in 1..n : i # j => k[i] # k[j]}

\* the mapping of the ids ks to the records ds
ArticleMapping(ks, ds) == [i \in DOMAIN ks |-> <<ks[i], ds[i]>>]

ScoreDates ==
  {Date2023, Date2010, DateSpring, DateLeadingSpace, Date2030, NonSpecifie}

FetchCall(variant, reply) ==
  [fn |-> "fetch_article_details", variant |-> variant, reply |-> reply,
   query_keywords |-> ScenarioKeywords]

\* the reply's mapping is a JSON object of up to MaxResp members, each key
\* once, with or without a "uids" member, which may stand anywhere
InitMapping(variant, titles) ==
  \E n \in 0..MaxResp : \E ks \in IdSeqs(n) : \E ds \in [1..n -> DetailRecords(titles)] :
    \/ call = FetchCall(variant, Reply("ok", ArticleMapping(ks, ds)))
    \/ /\ n < MaxResp
       /\ \E p \in 1..(n + 1) : \E v \in UidsValues :
            call = FetchCall(variant,
                     Reply("ok", InsertAt(ArticleMapping(ks, ds), p, <<"uids", v>>)))

InitFetch ==
  /\ \/ InitMapping("app", {TitleR1, TitleR2})
     \/ InitMapping("app2", {TitlePkModel, TitleReview})
     \/ \E v \in {"app", "app2"} : \E k \in FailureKinds : call = FetchCall(v, Reply(k, <<>>))
     \/ \E t \in {TitleR1, TitleR2} : \E d \in ScoreDates :
          call = [fn |-> "calculate_relevance_score",
                  article |-> [Titre |-> t, Resume |-> t, DatePublication |-> d],
                  query_keywords |-> ScenarioKeywords]
  /\ ret = NoRet
  /\ IdleRun

CallFetchApp ==
  /\ Pending("fetch_article_details")
  /\ call.variant = "app"
  /\ Finish(FetchApp(call.reply, call.query_keywords))

CallFetchApp2 ==
  /\ Pending("fetch_article_details")
  /\ call.variant = "app2"
  /\ Finish(FetchApp2(call.reply))

NextFetch == CallFetchApp \/ CallFetchApp2 \/ CallRelevanceScore

SpecFetch == InitFetch /\ [][NextFetch]_vars

-----------------------------------------------------------------------------
(* search_pubmed, both scripts, and PubMed as the scripts see it *)

SliderMin == 5

SliderMax == 50

SliderDefault == 20

MaxDb == 6

\* app.py search_pubmed: nothing is caught and the status is not looked at
SearchApp(reply) ==
  CASE reply.kind = "connection_error" -> Raise("ConnectionError")
    [] reply.kind = "not_json" -> Raise("JSONDecodeError")
    [] reply.kind \in {"no_member", "http_error"} -> Raise("KeyError")
    [] OTHER -> Return(reply.body, <<>>)

ErrNotJsonSearch == "La réponse de l'API PubMed n'est pas au format JSON. Vérifiez votre requête."

\* app2.py search_pubmed: an error status, a failed request and a body that
\* is no JSON give an st.error and []; a missing member gives [] in silence
SearchApp2(reply) ==
  CASE reply.kind \in {"connection_error", "http_error"} -> Return(<<>>, <<ErrRequest>>)
    [] reply.kind = "not_json" -> Return(<<>>, <<ErrNotJsonSearch>>)
    [] reply.kind = "no_member" -> Return(<<>>, <<>>)
    [] OTHER -> Return(reply.body, <<>>)

\* the id PubMed gives the i-th article matching the query
IdOf(i) == ToString(100 + i)

\* esearch with retmax: the ids of the first retmax matching articles
EsearchReply(kind, db, retmax) ==
  IF kind # "ok" THEN Reply(kind, <<>>)
  ELSE Reply("ok", [i \in 1..(IF retmax < Len(db) THEN retmax ELSE Len(db)) |-> IdOf(i)])

\* the article of db with the given id
DetailsOf(db, id) == db[CHOOSE i \in DOMAIN db : IdOf(i) = id]

\* esummary for a list of ids: the "uids" member first, then one member per
\* id; an empty id list is answered without a "result" member
EsummaryReply(kind, db, ids) ==
  IF kind # "ok" THEN Reply(kind, <<>>)
  ELSE IF ids = <<>> THEN Reply("no_member", <<>>)
  ELSE Reply("ok", << <<"uids", [array |-> ids]>> >>
                   \o [i \in DOMAIN ids |-> <<ids[i], DetailsOf(db, ids[i])>>])

-----------------------------------------------------------------------------
(* app.py, the script body (lines 88-130) *)

\* one thing the page shows: the Streamlit call and what it was given
Show(widget, arg) == [widget |-> widget, arg |-> arg]

RECURSIVE SplitOn(_, _, _)
\* s.split(c): the fields between the separators c, empty ones included
SplitOn(s, c, cur) ==
  IF s = <<>> THEN <<cur>>
  ELSE IF s[1] = c THEN <<cur>> \o SplitOn(Tail(s), c, <<>>)
  ELSE SplitOn(Tail(s), c, Append(cur, s[1]))

\* s.strip()
Strip(s) ==
  LET solid == {i \in DOMAIN s : s[i] # " "}
  IN  IF solid = {} THEN <<>>
      ELSE SubSeq(s, CHOOSE i \in solid : \A j \in solid : i <= j,
                     CHOOSE i \in solid : \A j \in solid : j <= i)

\* line 110: the condition of the comprehension
MatchesRefine(article, refine_keywords_list) ==
  \E i \in DOMAIN refine_keywords_list :
    \/ Contains(Lower(article.Titre), Lower(Strip(refine_keywords_list[i])))
    \/ Contains(Lower(article.Resume), Lower(Strip(refine_keywords_list[i])))

\* A refinement that looks at the first article only.
RefineFirstOnly(list, refine_keywords) ==
  SelectSeq(IF list = <<>> THEN <<>> ELSE <<list[1]>>,
            LAMBDA article : MatchesRefine(article, SplitOn(refine_keywords, ",", <<>>)))

\* lines 109-110
RefinedArticles(list, refine_keywords) ==
  SelectSeq(list, LAMBDA article : MatchesRefine(article, SplitOn(refine_keywords, ",", <<>>)))

QueryIcu == <<"i","c","u">>

TitleIcu == <<"I","C","U">>

TitleIcuVanco == <<"I","C","U"," ","V","a","n","c","o">>

Date2024 == <<"2","0","2","4"," ","J","a","n">>

BMJ == <<"B","M","J">>

RefineVanco == <<" ","v","a","n","c","o"," ",",","x">>

\* the articles PubMed may hold for the query
DbRecords ==
  { [title |-> TitleIcu, pubdate |-> Date2024, source |-> Lancet],
    [title |-> TitleIcuVanco, pubdate |-> Date2010, source |-> BMJ],
    [title |-> TitleIcuVanco, source |-> BMJ] }

Env1(clicked, query, n, search, fetch, db, refine) ==
  [script |-> "app", clicked |-> clicked, query |-> query, max_results |-> n,
   search |-> search, fetch |-> fetch, db |-> db, refine_keywords |-> refine]

InitRun1 ==
  /\ call = NoCall
  /\ ret = NoRet
  /\ pc = "start"
  /\ pubmed_ids = <<>>
  /\ articles = <<>>
  /\ shown = <<>>
  /\ fetches = 0
  /\ \/ \E clicked \in BOOLEAN : \E q \in {<<>>, QueryIcu} :
          /\ ~clicked \/ q = <<>>
          /\ env = Env1(clicked, q, SliderDefault, "ok", "ok", <<>>, <<>>)
     \/ \E k \in FailureKinds :
          env = Env1(TRUE, QueryIcu, SliderDefault, k, "ok", <<>>, <<>>)
     \/ \E k \in FailureKinds : \E d \in DbRecords :
          env = Env1(TRUE, QueryIcu, SliderDefault, "ok", k, <<d>>, <<>>)
     \/ \E len \in 0..MaxDb : \E db \in [1..len -> DbRecords] :
        \E n \in SliderMin..(IF SliderMax < MaxDb THEN SliderMax ELSE MaxDb) :
        \E refine \in {<<>>, RefineVanco} :
          env = Env1(TRUE, QueryIcu, n, "ok", "ok", db, refine)

WarnNoQuery == "Veuillez entrer des critères de recherche."

\* lines 91-93 and 129-130: the button, the empty query
Rechercher1 ==
  /\ pc = "start"
  /\ IF ~env.clicked THEN pc' = "done" /\ UNCHANGED shown
     ELSE IF env.query = <<>>
          THEN pc' = "done" /\ shown' = Append(shown, Show("warning", <<WarnNoQuery>>))
          ELSE pc' = "search"
               /\ shown' = Append(shown, Show("write", <<"Recherche en cours...">>))
  /\ UNCHANGED <<call, ret, env, pubmed_ids, articles, fetches>>

\* lines 94-96: an exception of search_pubmed ends the run
Search1 ==
  /\ pc = "search"
  /\ LET got == SearchApp(EsearchReply(env.search, env.db, env.max_results))
     IN  IF got.raised
         THEN /\ pc' = "crashed"
              /\ shown' = Append(shown, Show("exception", <<got.value>>))
              /\ UNCHANGED pubmed_ids
         ELSE /\ pc' = "fetch"
              /\ pubmed_ids' = got.value
              /\ shown' = Append(shown, Show("write", <<Len(got.value), "articles trouvés.">>))
  /\ UNCHANGED <<call, ret, env, articles, fetches>>

MsgFetching1 == "Récupération des détails des articles et calcul des pertinences..."

\* lines 98-103: the detail fetch is sent whatever pubmed_ids holds
Fetch1 ==
  /\ pc = "fetch"
  /\ fetches' = fetches + 1
  /\ LET got == FetchApp(EsummaryReply(env.fetch, env.db, pubmed_ids), SplitWs(env.query, <<>>))
     IN  IF got.raised
         THEN /\ pc' = "crashed"
              /\ shown' = shown \o <<Show("write", <<MsgFetching1>>),
                                      Show("exception", <<got.value>>)>>
              /\ UNCHANGED articles
         ELSE /\ pc' = "refine"
              /\ articles' = got.value
              /\ shown' = shown \o <<Show("write", <<MsgFetching1>>),
                                      Show("dataframe", got.value)>>
  /\ UNCHANGED <<call, ret, env, pubmed_ids>>

\* lines 105-128: the refined table when refine keywords are given, then the
\* download of the first table
Refine1 ==
  /\ pc = "refine"
  /\ pc' = "done"
  /\ shown' =
       Append(shown, Show("markdown", <<"### Affiner la recherche">>))
       \o (IF env.refine_keywords # <<>>
           THEN LET refined_articles == RefinedArticles(articles, env.refine_keywords)
                IN  <<Show("refined", refined_articles), Show("download", refined_articles)>>
           ELSE <<>>)
       \o <<Show("download", articles)>>
  /\ UNCHANGED <<call, ret, env, pubmed_ids, articles, fetches>>

NextRun1 == Rechercher1 \/ Search1 \/ Fetch1 \/ Refine1

SpecRun1 == InitRun1 /\ [][NextRun1]_vars

-----------------------------------------------------------------------------
(* app2.py, the script body (lines 136-189) *)

MaxRows == 3

\* the characters of the journal names and dates used here, by code point
CodePoints ==
  <<" ", "0","1","2","3","4","5","6","7","8","9",
    "A","B","C","D","E","F","G","H","I","J","K","L","M",
    "N","O","P","Q","R","S","T","U","V","W","X","Y","Z",
    "a","b","c","d","e","f","g","h","i","j","k","l","m",
    "n","o","p","q","r","s","t","u","v","w","x","y","z", "é">>

Ord(c) == CHOOSE i \in DOMAIN CodePoints : CodePoints[i] = c

\* a <= b for Python str: by the first character that differs, a prefix first
StrLeq(a, b) ==
  LET differ == {i \in 1..(IF Len(a) < Len(b) THEN Len(a) ELSE Len(b)) : a[i] # b[i]}
      first == CHOOSE i \in differ : \A j \in differ : i <= j
  IN  IF differ = {} THEN Len(a) <= Len(b) ELSE Ord(a[first]) < Ord(b[first])

\* line 169: df["Flag PK"]
FlagPK(row) == IF row.ContientModelePK = "Oui" THEN 0 ELSE 1

\* row a sorts before or with row b by ["Flag PK", "Score modèle PK"],
\* ascending=[True, False]
PkBeforeOrEqual(a, b) ==
  \/ FlagPK(a) < FlagPK(b)
  \/ FlagPK(a) = FlagPK(b) /\ a.ScoreModelePK >= b.ScoreModelePK

RECURSIVE InsertPk(_, _)
InsertPk(sorted, x) ==
  IF sorted = <<>> THEN <<x>>
  ELSE IF PkBeforeOrEqual(sorted[1], x) THEN <<sorted[1]>> \o InsertPk(Tail(sorted), x)
  ELSE <<x>> \o sorted

RECURSIVE SortByPk(_, _)
\* line 170: sort_values by two columns, which pandas sorts stably
SortByPk(rows, acc) ==
  IF rows = <<>> THEN acc ELSE SortByPk(Tail(rows), InsertPk(acc, rows[1]))

\* df[sort_column] of a row
Column(row, sort_column) ==
  IF sort_column = "Journal" THEN row.Journal ELSE row.DatePublication

\* line 176: out is df.sort_values(by=sort_column, ascending=True); the
\* default kind is quicksort, which is not stable, so rows with equal values
\* may come in any order
IsSortedBy(out, df, sort_column) ==
  /\ \E p \in Permutations(DOMAIN df) : out = [i \in DOMAIN df |-> df[p[i]]]
  /\ \A i \in DOMAIN out : \A j \in DOMAIN out :
       i < j => StrLeq(Column(out[i], sort_column), Column(out[j], sort_column))

QueryClearance == <<"c","l","e","a","r","a","n","c","e">>

Db2Records ==
  {[title |-> t, pubdate |-> d, source |-> j] :
     t \in {TitlePkModel, TitleReview}, d \in {Date2023, Date2010}, j \in {Lancet, BMJ}}

Env2(clicked, query, search, fetch, db, sort_column) ==
  [script |-> "app2", clicked |-> clicked, query |-> query, max_results |-> SliderDefault,
   search |-> search, fetch |-> fetch, db |-> db, sort_column |-> sort_column]

InitRun2 ==
  /\ call = NoCall
  /\ ret = NoRet
  /\ pc = "start"
  /\ pubmed_ids = <<>>
  /\ articles = <<>>
  /\ shown = <<>>
  /\ fetches = 0
  /\ \/ \E clicked \in BOOLEAN : \E q \in {<<>>, QueryClearance} :
          /\ ~clicked \/ q = <<>>
          /\ env = Env2(clicked, q, "ok", "ok", <<>>, "Journal")
     \/ \E k \in FailureKinds :
          env = Env2(TRUE, QueryClearance, k, "ok", <<>>, "Journal")
     \/ \E k \in FailureKinds : \E d \in Db2Records :
          env = Env2(TRUE, QueryClearance, "ok", k, <<d>>, "Journal")
     \/ \E len \in 0..MaxRows : \E db \in [1..len -> Db2Records] :
        \E col \in {"Journal", "Date de publication"} :
          env = Env2(TRUE, QueryClearance, "ok", "ok", db, col)

WarnNoKeywords == "Veuillez entrer des mots-clés pour effectuer une recherche."

WarnNothingFound == "Aucun article correspondant trouvé. Essayez d'élargir votre recherche."

\* the st.error calls a function made
Errors(diag) == [i \in DOMAIN diag |-> Show("error", <<diag[i]>>)]

\* lines 149-156 and 188-189
Rechercher2 ==
  /\ pc = "start"
  /\ IF ~env.clicked THEN pc' = "done" /\ UNCHANGED shown
     ELSE IF env.query = <<>>
          THEN pc' = "done" /\ shown' = Append(shown, Show("warning", <<WarnNoKeywords>>))
          ELSE /\ pc' = "search"
               /\ shown' = shown \o
                    << Show("query", construct_query_with_keywords(SplitWs(env.query, <<>>),
                                                                   pharmacometry_keywords)),
                       Show("write", <<"Recherche en cours...">>) >>
  /\ UNCHANGED <<call, ret, env, pubmed_ids, articles, fetches>>

\* lines 157-160 and 186-187
Search2 ==
  /\ pc = "search"
  /\ LET got == SearchApp2(EsearchReply(env.search, env.db, env.max_results))
     IN  /\ pubmed_ids' = got.value
         /\ IF got.value # <<>>
            THEN /\ pc' = "fetch"
                 /\ shown' = shown \o Errors(got.diag)
                      \o <<Show("write", <<"Articles trouvés :", Len(got.value)>>)>>
            ELSE /\ pc' = "done"
                 /\ shown' = shown \o Errors(got.diag)
                      \o << Show("write", <<"Articles trouvés :", 0>>),
                            Show("warning", <<WarnNothingFound>>) >>
  /\ UNCHANGED <<call, ret, env, articles, fetches>>

MsgFetching2 == "Récupération des détails des articles..."

\* lines 161-171: the fetch, the DataFrame and the sort by PK flag and score;
\* a DataFrame of no rows has no column "Contient modèle PK": KeyError
Fetch2 ==
  /\ pc = "fetch"
  /\ fetches' = fetches + 1
  /\ LET got == FetchApp2(EsummaryReply(env.fetch, env.db, pubmed_ids))
     IN  IF got.value = <<>>
         THEN /\ pc' = "crashed"
              /\ shown' = shown \o <<Show("write", <<MsgFetching2>>)>> \o Errors(got.diag)
                                \o <<Show("exception", <<"KeyError">>)>>
              /\ UNCHANGED articles
         ELSE /\ pc' = "sort"
              /\ articles' = SortByPk(got.value, <<>>)
              /\ shown' = shown \o <<Show("write", <<MsgFetching2>>)>> \o Errors(got.diag)
  /\ UNCHANGED <<call, ret, env, pubmed_ids>>

\* lines 173-185: the sort by the selected column (always one of df's
\* columns, so the sort always runs), the table, the download
Sort2 ==
  /\ pc = "sort"
  /\ pc' = "done"
  /\ \E p \in Permutations(DOMAIN articles) :
       /\ articles' = [i \in DOMAIN articles |-> articles[p[i]]]
       /\ IsSortedBy(articles', articles, env.sort_column)
  /\ shown' = shown \o <<Show("dataframe", articles'), Show("download", articles')>>
  /\ UNCHANGED <<call, ret, env, pubmed_ids, fetches>>

NextRun2 == Rechercher2 \/ Search2 \/ Fetch2 \/ Sort2

SpecRun2 == InitRun2 /\ [][NextRun2]_vars

-----------------------------------------------------------------------------
(* Properties of the pure functions *)

Called(fn) == call.fn = fn /\ ret.done

TextAAA == <<"a","a","a">>

KeywordAA == <<"a","a">>

\* sum over the keywords ks of the number of start positions in s
SumStarts(s, ks) == SumSeq([i \in DOMAIN ks |-> Cardinality(Starts(s, Lower(ks[i])))])

ClaimedModelType(title, summary) ==
  LET text == Lower(TitleSummary(title, summary))
      hits == {i \in DOMAIN model_types : Contains(text, Lower(model_types[i]))}
  IN  IF hits # {} THEN model_types[CHOOSE i \in hits : \A j \in hits : i <= j]
      ELSE IF Contains(text, KwPk) THEN ModelePK
      ELSE NonSpecifie

\* C3: determine_model_type returns the first of "mono-compartimental",
\* "bi-compartimental", "avec Tlag", "modèle de transit" that occurs as a
\* case-insensitive substring of the combined text, else "Modèle PK" when "pk"
\* occurs case-insensitively, else "Non spécifié".
C3_FirstPhraseWins ==
  Called("determine_model_type") =>
    ret.value = ClaimedModelType(call.title, call.summary)

\* occurrences of a term in a string, wherever they start
Occurrences(s, term) == Cardinality(Starts(s, term))

\* C2 as stated: the returned string contains each required term exactly once.
C2_ExactlyOnce ==
  Called("construct_query_with_keywords") =>
    \A i \in DOMAIN call.user_keywords :
      Occurrences(ret.value, call.user_keywords[i]) = 1

\* where the i-th required term starts in the returned string
TermOffset(uk, i) == 2 + SumSeq([j \in 1..(i - 1) |-> Len(uk[j]) + Len(SepAnd)])

\* the optional keywords the builder keeps
KeptOptional(opt) == Prefix(opt, MinKeywords(Len(opt)))

\* C2 amended: no required term is dropped. The returned string opens with
\* "(", then every element of the required list in list order, separated by
\* " AND ", then ")"; so it contains each required term at least once, and
\* more than once when the term is also inside a kept optional keyword (the
\* user keyword "clearance" occurs twice).
C2_NeverDropped ==
  Called("construct_query_with_keywords") =>
    LET uk == call.user_keywords
        q  == ret.value
        close == TermOffset(uk, Len(uk) + 1) - (IF uk = <<>> THEN 0 ELSE Len(SepAnd))
    IN  /\ q[1] = "("
        /\ \A i \in DOMAIN uk :
             /\ SubSeq(q, TermOffset(uk, i), TermOffset(uk, i) + Len(uk[i]) - 1) = uk[i]
             /\ Occurrences(q, uk[i]) >= 1
             /\ (\E j \in DOMAIN KeptOptional(call.pharmacometry_keywords) :
                   Contains(KeptOptional(call.pharmacometry_keywords)[j], uk[i]))
                  => Occurrences(q, uk[i]) >= 2
        /\ q[close] = ")"
        /\ SubSeq(q, close + 1, close + Len(SepAnd)) = SepAnd

\* the required term "clearance" with the script's 21 pharmacometry keywords,
\* 7 of which are kept, "clearance" the last of them
C2_Witness ==
  /\ Called("construct_query_with_keywords")
  /\ call.user_keywords = <<TermClearance>>
  /\ call.pharmacometry_keywords = pharmacometry_keywords
  /\ Len(KeptOptional(pharmacometry_keywords)) = 7
  /\ KeptOptional(pharmacometry_keywords)[7] = TermClearance
  /\ Occurrences(ret.value, TermClearance) = 2

-----------------------------------------------------------------------------
(* Properties of fetch_article_details and calculate_relevance_score *)

FetchReturned(variant) ==
  /\ Called("fetch_article_details")
  /\ call.variant = variant
  /\ call.reply.kind = "ok"

\* the items of the reply's mapping that are not the "uids" member, in order
ArticleItems == SelectSeq(call.reply.body, LAMBDA item : item[1] # "uids")

\* the records of ret.value made for the key k
RecordsOf(k) == {i \in DOMAIN ret.value : ret.value[i].Lien = Lien(k)}

\* C1: for every detail-fetch response mapping, fetch_article_details of
\* either script produces exactly one article record per key other than
\* "uids", and none for "uids", wherever that key stands and whatever its value.
C1_OneRecordPerKey ==
  \A variant \in {"app", "app2"} :
    FetchReturned(variant) =>
      /\ ~ret.raised
      /\ Len(ret.value) = Len(ArticleItems)
      /\ \A i \in DOMAIN call.reply.body :
           Cardinality(RecordsOf(call.reply.body[i][1])) =
             (IF call.reply.body[i][1] = "uids" THEN 0 ELSE 1)

HasNoSpace(date) == ~Contains(date, <<" ">>)

\* C4: calculate_relevance_score never raises; a date without a space, and a
\* date with a space whose first field is no integer, both leave the score at
\* the keyword score; fetch_article_details therefore returns its records.
C4_NeverRaises ==
  /\ Called("calculate_relevance_score") =>
       /\ ~ret.raised
       /\ (HasNoSpace(call.article.DatePublication)
           \/ ~ParseInt(FirstField(call.article.DatePublication)).ok)
            => ret.value = keyword_score(call.article, call.query_keywords)
  /\ FetchReturned("app") => ~ret.raised

\* the position in the reply's mapping of the item the i-th returned record
\* was made from
SourceOf(i) == CHOOSE n \in DOMAIN ArticleItems : Lien(ArticleItems[n][1]) = ret.value[i].Lien

\* C6: the list app.py's fetch_article_details returns is a permutation of
\* the fetched records, in non-increasing "Score Pertinence", and records of
\* equal score keep the order they have in the detail-fetch response.
C6_StableDescending ==
  (FetchReturned("app") /\ ~ret.raised) =>
    LET out == ret.value
    IN  /\ Len(out) = Len(ArticleItems)
        /\ \A n \in DOMAIN ArticleItems :
             \E i \in DOMAIN out :
               /\ out[i] = ScoredArticle(ArticleApp(ArticleItems[n][1], ArticleItems[n][2]),
                                         call.query_keywords).value
               /\ \A j \in DOMAIN out : out[j].Lien = out[i].Lien => j = i
        /\ \A i \in DOMAIN out : \A j \in DOMAIN out :
             i < j =>
               /\ out[i].ScorePertinence >= out[j].ScorePertinence
               /\ out[i].ScorePertinence = out[j].ScorePertinence
                    => SourceOf(i) < SourceOf(j)

\* three records came back, the sort moved the first fetched record behind
\* two records of equal score
C6_Witness ==
  /\ FetchReturned("app")
  /\ ~ret.raised
  /\ Len(ret.value) = 3
  /\ ret.value[1].ScorePertinence = ret.value[2].ScorePertinence
  /\ ret.value[2].ScorePertinence > ret.value[3].ScorePertinence
  /\ SourceOf(3) = 1
  /\ SourceOf(1) < SourceOf(2)

\* the scenario: R1 and R2 are the two fetched records, with keywords
\* ["antibiotic", "ICU"]
IsR1(details) == details = [title |-> TitleR1, pubdate |-> Date2023, source |-> Lancet]

IsR2(details) == details = [title |-> TitleR2, pubdate |-> Date2010, source |-> Lancet]

Scenario ==
  /\ FetchReturned("app")
  /\ call.query_keywords = ScenarioKeywords
  /\ Len(ArticleItems) = 2
  /\ \E i \in 1..2 : IsR1(ArticleItems[i][2]) /\ IsR2(ArticleItems[3 - i][2])

\* the returned record with the title t
RecordTitled(t) == ret.value[CHOOSE i \in DOMAIN ret.value : ret.value[i].Titre = t]

\* how many of the query keywords occur in the title
KeywordHits(t) ==
  Cardinality({i \in DOMAIN call.query_keywords :
                 Contains(Lower(t), Lower(call.query_keywords[i]))})

\* what the date took off the keyword score of a returned record
Penalty(rec) == keyword_score(rec, call.query_keywords) - rec.ScorePertinence

\* C8: R1 gets 2 keyword hits and a recency penalty of 2, R2 gets 1 keyword
\* hit and a recency penalty of 0, the relevance score of R1 is strictly
\* higher than that of R2, and the sorted output places R1 first.
C8_R1RanksFirst ==
  Scenario =>
    /\ ~ret.raised
    /\ KeywordHits(TitleR1) = 2
    /\ Penalty(RecordTitled(TitleR1)) = 2
    /\ KeywordHits(TitleR2) = 1
    /\ Penalty(RecordTitled(TitleR2)) = 0
    /\ RecordTitled(TitleR1).ScorePertinence > RecordTitled(TitleR2).ScorePertinence
    /\ ret.value[1].Titre = TitleR1

\* C8 amended: R1 gets 2 keyword hits, each counted in the title and again in
\* the summary (keyword score 4), and a recency penalty of 2; R2 gets 1
\* keyword hit (keyword score 2) and a recency penalty of 0; both relevance
\* scores are 2, so neither is strictly higher, and the sorted output keeps
\* the two records in the order of the detail-fetch response: R1 is first
\* exactly when the response lists it first.
C8_ScoresTie ==
  Scenario =>
    /\ ~ret.raised
    /\ KeywordHits(TitleR1) = 2
    /\ keyword_score(RecordTitled(TitleR1), call.query_keywords) = 4
    /\ Penalty(RecordTitled(TitleR1)) = 2
    /\ KeywordHits(TitleR2) = 1
    /\ keyword_score(RecordTitled(TitleR2), call.query_keywords) = 2
    /\ Penalty(RecordTitled(TitleR2)) = 0
    /\ RecordTitled(TitleR1).ScorePertinence = 2
    /\ RecordTitled(TitleR2).ScorePertinence = 2
    /\ Len(ret.value) = 2
    /\ \A i \in 1..2 : ret.value[i].Titre = ArticleItems[i][2].title

\* the scenario with R2 listed first in the response, and returned first
C8_Witness ==
  /\ Scenario
  /\ IsR2(ArticleItems[1][2])
  /\ ~ret.raised
  /\ ret.value[1].Titre = TitleR2
  /\ ret.value[2].Titre = TitleR1

-----------------------------------------------------------------------------
(* Properties of the app.py script *)

\* the run has left the search behind
PastSearch == pc \in {"fetch", "refine", "done", "crashed"}

\* the page shows an st.error or st.warning
DiagnosticShown == \E i \in DOMAIN shown : shown[i].widget \in {"error", "warning"}

\* C5: when the search request fails (no connection, an error status, a body
\* that is no JSON or lacks esearchresult/idlist), search_pubmed reports a
\* diagnostic and returns an empty id list instead of raising, and the run
\* sends no detail fetch and does not crash.
C5_SearchFailureIsNoCrash ==
  (env.script = "app" /\ env.clicked /\ env.search \in FailureKinds /\ PastSearch) =>
    /\ pc # "crashed"
    /\ DiagnosticShown
    /\ pubmed_ids = <<>>
    /\ fetches = 0

\* the refined table, once the run has shown one
RefinedShown == \E i \in DOMAIN shown : shown[i].widget = "refined"

Refined == shown[CHOOSE i \in DOMAIN shown : shown[i].widget = "refined"].arg

\* the refine filter f on the i-th matching article of PubMed
SatisfiesRefine(i) ==
  MatchesRefine(ArticleApp(IdOf(i), env.db[i]), SplitOn(env.refine_keywords, ",", <<>>))

InRefined(i) == \E j \in DOMAIN Refined : Refined[j].Lien = Lien(IdOf(i))

Smaller(a, b) == IF a < b THEN a ELSE b

\* C7: the refined result shown is the first n elements of the filtered set
\* of matching articles, n the "Nombre d'articles à récupérer": it has
\* min(n, number of matching articles satisfying f) rows, and an article that
\* satisfies f is left out only if n articles satisfying f are shown.
C7_FilterThenTruncate ==
  (env.script = "app" /\ RefinedShown) =>
    /\ Len(Refined) =
         Smaller(env.max_results, Cardinality({i \in DOMAIN env.db : SatisfiesRefine(i)}))
    /\ \A i \in DOMAIN env.db :
         (SatisfiesRefine(i) /\ ~InRefined(i)) => Len(Refined) >= env.max_results

\* C7 amended: truncate-then-filter. The limit n is the retmax of the search,
\* so the n first matching articles are fetched, and the refined result shown
\* is the filter f applied to those fetched articles, in their sorted order:
\* an article is in it exactly when it satisfies f and is among the n first
\* matching articles, whatever the number of rows shown.
C7_TruncateThenFilter ==
  (env.script = "app" /\ RefinedShown) =>
    /\ Len(articles) = Smaller(env.max_results, Len(env.db))
    /\ \A i \in DOMAIN env.db :
         InRefined(i) <=> (i <= env.max_results /\ SatisfiesRefine(i))
    /\ Len(Refined) = Cardinality({i \in DOMAIN env.db :
                                     i <= env.max_results /\ SatisfiesRefine(i)})
    /\ \A j \in DOMAIN Refined : \A k \in DOMAIN Refined :
         j < k =>
           \E a \in DOMAIN articles : \E b \in DOMAIN articles :
             a < b /\ articles[a] = Refined[j] /\ articles[b] = Refined[k]

\* PubMed holds one matching article more than the limit, the last one
\* satisfies the filter and is not shown, though fewer than n rows are shown
C7_Witness ==
  /\ env.script = "app"
  /\ RefinedShown
  /\ Len(env.db) = env.max_results + 1
  /\ SatisfiesRefine(Len(env.db))
  /\ ~InRefined(Len(env.db))
  /\ Len(Refined) < env.max_results

-----------------------------------------------------------------------------
(* Properties of the app2.py script *)

\* the table app2.py shows and exports at the end of a run
TableShown == env.script = "app2" /\ pc = "done" /\ \E i \in DOMAIN shown : shown[i].widget = "dataframe"

Table == shown[CHOOSE i \in DOMAIN shown : shown[i].widget = "dataframe"].arg

\* C10: after both sorts, the table displayed and exported has every article
\* with "Contient modèle PK" = "Oui" before every article with "Non", and
\* within each group the articles in non-increasing "Score modèle PK".
C10_PkArticlesFirst ==
  TableShown =>
    \A i \in DOMAIN Table : \A j \in DOMAIN Table :
      i < j =>
        /\ ~(Table[i].ContientModelePK = "Non" /\ Table[j].ContientModelePK = "Oui")
        /\ Table[i].ContientModelePK = Table[j].ContientModelePK
             => Table[i].ScoreModelePK >= Table[j].ScoreModelePK

====
